---- MODULE Spec2Model ----
(***************************************************************************)
(* Model of llmapi.py: the POST /process-audio/ handler process_audio and  *)
(* its dependency get_openai_api_key.  Requests run interleaved; each one  *)
(* advances between the points where the handler waits on external work:   *)
(* the dependency, the creation of the temp file (which precedes the       *)
(* awaited upload read), the upload read with the write that follows it,   *)
(* the Whisper call and the generation call.  The temp directory is shared *)
(* by all requests.                                                        *)
(***************************************************************************)
EXTENDS Integers, Sequences, FiniteSets, TLC

\* ---------------------------------------------------------------- bounds
NumReqs == 2
NumNames == 2

Reqs == 1..NumReqs
\* names NamedTemporaryFile can draw (tmpXXXXXXXX.wav)
Names == 1..NumNames

\* ------------------------------------------------------- input alphabets
\* Python None / an omitted parameter is the empty tuple, a present value v
\* is <<v>>.
None == <<>>

\* os.getenv("OPENAI_API_KEY"): unset, set to the empty string, or set
EnvKeys == {None, <<"">>, <<"sk-test">>}

\* model_choice as sent by the client: omitted, or some string
Queries == {None, <<"OpenAI API">>, <<"GPT4All">>, <<"llama">>}

\* uploaded audio bytes: a second of silence, a spoken "hello"
Uploads == {"silent.wav", "hello.wav"}

\* content of a file that NamedTemporaryFile has created and nobody wrote
EmptyBytes == ""

\* replies a generation engine can give
Replies == {"hi there"}

\* messages of a failing remote completion call
RemoteErrors == {"Connection error."}

VARIABLES
    env_key,          \* OPENAI_API_KEY of the process
    fs,               \* temp directory: name -> [owner, data]
    pc,               \* position of each request
    query,            \* model_choice parameter as sent
    model_choice,     \* handler parameter, the default applied
    temp_name,        \* temp_audio.name
    content,          \* the bytes read from the upload and written to the file
    temp_audio_path,  \* temp_audio_path
    transcribed_text, \* transcribed_text
    response,         \* what leaves the handler
    whisperCalls,     \* calls of whisper_model.transcribe
    localCalls,       \* uses of the GPT4All engine
    remoteCalls,      \* uses of the OpenAI client
    engineReply,      \* what the generation engine returned to the request
    fault             \* the external failure the request met, if any

vars == <<env_key, fs, pc, query, model_choice, temp_name, content,
          temp_audio_path, transcribed_text, response, whisperCalls,
          localCalls, remoteCalls, engineReply, fault>>

\* ------------------------------------------------------------ exceptions
HTTPException(code, d) ==
    [type |-> "HTTPException", status_code |-> code, detail |-> d]
Exception(m) == [type |-> "Exception", msg |-> m]

NoFault == [at |-> "none", msg |-> ""]
Fault(where, m) == [at |-> where, msg |-> m]

\* str(e): an HTTPException prints as "<status_code>: <detail>" (Starlette's
\* __str__; every HTTPException of this program has status_code 500), any
\* other exception as its message
Str(e) ==
    IF e.type = "HTTPException" THEN "500: " \o e.detail ELSE e.msg

\* an HTTPException leaving the handler, as FastAPI renders it
ErrorResponse(e) == [status |-> e.status_code, body |-> [detail |-> e.detail]]

\* a value returned by the handler, as FastAPI renders it
OkResponse(v) == [status |-> 200, body |-> v]

NoResponse == [status |-> 0, body |-> None]

\* except Exception as e: raise HTTPException(500, "An unexpected error ...")
OuterExceptPass(e) == OkResponse(None)
OuterExcept(e) ==
    ErrorResponse(HTTPException(500, "An unexpected error occurred: " \o Str(e)))

\* except Exception as e: raise HTTPException(500, "Error with OpenAI API: ..."),
\* raised inside the outer try and so handled by its except clause
InnerExcept(e) ==
    OuterExcept(HTTPException(500, "Error with OpenAI API: " \o Str(e)))

\* ------------------------------------------------------------------ Init
Init ==
    /\ env_key \in EnvKeys
    /\ fs = << >>
    /\ pc = [r \in Reqs |-> "idle"]
    /\ query = [r \in Reqs |-> None]
    /\ model_choice = [r \in Reqs |-> ""]
    /\ temp_name = [r \in Reqs |-> None]
    /\ content = [r \in Reqs |-> None]
    /\ temp_audio_path = [r \in Reqs |-> None]
    /\ transcribed_text = [r \in Reqs |-> None]
    /\ response = [r \in Reqs |-> NoResponse]
    /\ whisperCalls = [r \in Reqs |-> 0]
    /\ localCalls = [r \in Reqs |-> 0]
    /\ remoteCalls = [r \in Reqs |-> 0]
    /\ engineReply = [r \in Reqs |-> None]
    /\ fault = [r \in Reqs |-> NoFault]

\* the request ends with response resp
Finish(r, resp) ==
    /\ pc' = [pc EXCEPT ![r] = "done"]
    /\ response' = [response EXCEPT ![r] = resp]

\* the request ends in the outer except clause with exception e, after the
\* external failure f
Raise(r, f, e) ==
    /\ fault' = [fault EXCEPT ![r] = f]
    /\ Finish(r, OuterExcept(e))

\* ------------------------------------------------------------ dependency
\* model_choice: str = "OpenAI API"
DefaultChoice(q) == IF q = None THEN "OpenAI API" ELSE q[1]

\* if not api_key
KeyMissing(k) == k = None \/ k = <<"">>

\* openai_api_key: str = Depends(get_openai_api_key): the dependency is
\* resolved for the request whatever its model_choice
NeedsKeyRemoteOnly(choice) == choice = "OpenAI API"
NeedsKey(choice) == TRUE

KeyErrorResponse ==
    ErrorResponse(HTTPException(500,
        "OpenAI API key is not configured. Please set the 'OPENAI_API_KEY' environment variable."))

\* A request arrives; FastAPI resolves Depends(get_openai_api_key) and either
\* answers 500 itself or enters the handler.
Request(r) ==
    /\ pc[r] = "idle"
    /\ \E q \in Queries :
        /\ query' = [query EXCEPT ![r] = q]
        /\ model_choice' = [model_choice EXCEPT ![r] = DefaultChoice(q)]
        /\ IF NeedsKey(DefaultChoice(q)) /\ KeyMissing(env_key)
           THEN Finish(r, KeyErrorResponse)
           ELSE /\ pc' = [pc EXCEPT ![r] = "tempfile"]
                /\ UNCHANGED response
    /\ UNCHANGED <<env_key, fs, temp_name, content, temp_audio_path,
                   transcribed_text, whisperCalls, localCalls, remoteCalls,
                   engineReply, fault>>

\* ---------------------------------------------------- NamedTemporaryFile
\* names mkstemp may return: it opens with O_EXCL and retries on a name that
\* exists, so only names absent from the directory
AnyNames(dir) == Names
FreeNames(dir) == Names \ DOMAIN dir

\* the directory with a new empty file n, created by request r
WithFile(dir, n, r) ==
    [m \in DOMAIN dir \cup {n} |->
        IF m = n THEN [owner |-> r, data |-> EmptyBytes] ELSE dir[m]]

\* temp_audio.write(d) on the file created under name n
WriteFile(dir, n, d) ==
    IF n \in DOMAIN dir THEN [dir EXCEPT ![n].data = d] ELSE dir

\* os.remove(n)
KeepFile(dir, n) == dir
RemoveFile(dir, n) == [m \in DOMAIN dir \ {n} |-> dir[m]]

\* failures of the creation: of the file system, or mkstemp finding every
\* name taken
CreateErrors(dir) ==
    IF FreeNames(dir) = {}
    THEN {"No usable temporary file name found"}
    ELSE {"No space left on device"}

\* with NamedTemporaryFile(delete=False, suffix=".wav") as temp_audio:
CreateTemp(r) ==
    /\ pc[r] = "tempfile"
    /\ \/ \E n \in FreeNames(fs) :
            /\ fs' = WithFile(fs, n, r)
            /\ temp_name' = [temp_name EXCEPT ![r] = <<n>>]
            /\ pc' = [pc EXCEPT ![r] = "read"]
            /\ UNCHANGED <<response, fault>>
       \/ \E m \in CreateErrors(fs) :
            /\ Raise(r, Fault("tempfile", m), Exception(m))
            /\ UNCHANGED <<fs, temp_name>>
    /\ UNCHANGED <<env_key, query, model_choice, content, temp_audio_path,
                   transcribed_text, whisperCalls, localCalls, remoteCalls,
                   engineReply>>

\* content = await file.read(); temp_audio.write(content);
\* temp_audio_path = temp_audio.name; the with block closes the file
ReadUpload(r) ==
    /\ pc[r] = "read"
    /\ \/ \E u \in Uploads :
            /\ content' = [content EXCEPT ![r] = <<u>>]
            /\ fs' = WriteFile(fs, temp_name[r][1], u)
            /\ temp_audio_path' = [temp_audio_path EXCEPT ![r] = temp_name[r]]
            /\ pc' = [pc EXCEPT ![r] = "transcribe"]
            /\ UNCHANGED <<response, fault>>
       \/ /\ Raise(r, Fault("read", "upload read failed"),
                   Exception("upload read failed"))
          /\ UNCHANGED <<content, fs, temp_audio_path>>
       \/ /\ Raise(r, Fault("write", "No space left on device"),
                   Exception("No space left on device"))
          /\ UNCHANGED <<content, fs, temp_audio_path>>
    /\ UNCHANGED <<env_key, query, model_choice, temp_name, transcribed_text,
                   whisperCalls, localCalls, remoteCalls, engineReply>>

\* --------------------------------------------------------- transcription
\* the transcription engine on the bytes of a file: the text it hears, or a
\* failure to decode
Whisper(data) ==
    CASE data = "hello.wav"  -> [ok |-> TRUE, text |-> "hello"]
      [] data = "silent.wav" -> [ok |-> TRUE, text |-> ""]
      [] OTHER               -> [ok |-> FALSE, text |-> "Failed to load audio"]

\* whisper_model.transcribe(p) against the directory
TranscribeFile(dir, p) ==
    IF p \in DOMAIN dir THEN Whisper(dir[p].data)
    ELSE [ok |-> FALSE, text |-> "Failed to load audio"]

\* if not transcribed_text
NeverEmpty(t) == FALSE
IsEmptyText(t) == t = ""

\* the handler from the transcribed text t on, up to the generation call
CheckText(r, t) ==
    IF IsEmptyText(t)
    THEN /\ Raise(r, NoFault,
                  HTTPException(500, "Transcription failed: No text generated."))
         /\ UNCHANGED transcribed_text
    ELSE /\ transcribed_text' = [transcribed_text EXCEPT ![r] = <<t>>]
         /\ pc' = [pc EXCEPT ![r] = "generate"]
         /\ UNCHANGED <<response, fault>>

\* whisper_model = whisper.load_model("base")
\* transcription = whisper_model.transcribe(temp_audio_path)
\* transcribed_text = transcription["text"]; if not transcribed_text: raise
Transcribe(r) ==
    /\ pc[r] = "transcribe"
    /\ \/ /\ Raise(r, Fault("load", "cannot load model base"),
                   Exception("cannot load model base"))
          /\ UNCHANGED <<transcribed_text, whisperCalls>>
       \/ /\ whisperCalls' = [whisperCalls EXCEPT ![r] = @ + 1]
          /\ LET res == TranscribeFile(fs, temp_audio_path[r][1]) IN
               IF res.ok THEN CheckText(r, res.text)
               ELSE /\ Raise(r, NoFault, Exception(res.text))
                    /\ UNCHANGED transcribed_text
       \/ /\ whisperCalls' = [whisperCalls EXCEPT ![r] = @ + 1]
          /\ Raise(r, Fault("transcribe", "CUDA out of memory"),
                   Exception("CUDA out of memory"))
          /\ UNCHANGED transcribed_text
       \/ \* the result carries no "text": KeyError
          /\ whisperCalls' = [whisperCalls EXCEPT ![r] = @ + 1]
          /\ Raise(r, Fault("notext", "'text'"), Exception("'text'"))
          /\ UNCHANGED transcribed_text
    /\ UNCHANGED <<env_key, fs, query, model_choice, temp_name, content,
                   temp_audio_path, localCalls, remoteCalls, engineReply>>

\* ------------------------------------------------------------ generation
\* if model_choice == "GPT4All" ... elif model_choice == "OpenAI API" ...
BranchRemoteElse(choice) ==
    IF choice = "OpenAI API" \/ choice = "GPT4All" THEN "remote" ELSE "none"
Branch(choice) ==
    CASE choice = "GPT4All"    -> "local"
      [] choice = "OpenAI API" -> "remote"
      [] OTHER                 -> "none"

\* {"transcription": transcribed_text, "chatgpt_response": ...}
PayloadSwapped(t, g) == [transcription |-> g, chatgpt_response |-> t]
Payload(t, g) == [transcription |-> t, chatgpt_response |-> g]

\* gpt_model = GPT4All("ggml-gpt4all-j"); gpt_model.chat(transcribed_text)
GenerateLocal(r) ==
    /\ pc[r] = "generate"
    /\ Branch(model_choice[r]) = "local"
    /\ localCalls' = [localCalls EXCEPT ![r] = @ + 1]
    /\ \/ \E g \in Replies :
            /\ engineReply' = [engineReply EXCEPT ![r] = <<g>>]
            /\ Finish(r, OkResponse(Payload(transcribed_text[r][1], g)))
            /\ UNCHANGED fault
       \/ /\ Raise(r, Fault("gpt4all", "Model file does not exist"),
                   Exception("Model file does not exist"))
          /\ UNCHANGED engineReply
    /\ UNCHANGED <<env_key, fs, query, model_choice, temp_name, content,
                   temp_audio_path, transcribed_text, whisperCalls,
                   remoteCalls>>

\* client = OpenAI(api_key=...); client.chat.completions.create(...)
GenerateRemote(r) ==
    /\ pc[r] = "generate"
    /\ Branch(model_choice[r]) = "remote"
    /\ remoteCalls' = [remoteCalls EXCEPT ![r] = @ + 1]
    /\ \/ \E g \in Replies :
            /\ engineReply' = [engineReply EXCEPT ![r] = <<g>>]
            /\ Finish(r, OkResponse(Payload(transcribed_text[r][1], g)))
            /\ UNCHANGED fault
       \/ \E m \in RemoteErrors :
            /\ fault' = [fault EXCEPT ![r] = Fault("remote", m)]
            /\ Finish(r, InnerExcept(Exception(m)))
            /\ UNCHANGED engineReply
    /\ UNCHANGED <<env_key, fs, query, model_choice, temp_name, content,
                   temp_audio_path, transcribed_text, whisperCalls,
                   localCalls>>

\* neither branch taken: the clean-up lines run and the handler returns None
FallThrough(r) ==
    /\ pc[r] = "generate"
    /\ Branch(model_choice[r]) = "none"
    /\ fs' = IF temp_audio_path[r] # None /\ temp_audio_path[r][1] \in DOMAIN fs
             THEN RemoveFile(fs, temp_audio_path[r][1])
             ELSE fs
    /\ Finish(r, OkResponse(None))
    /\ UNCHANGED <<env_key, query, model_choice, temp_name, content,
                   temp_audio_path, transcribed_text, whisperCalls, localCalls,
                   remoteCalls, engineReply, fault>>

Next ==
    \E r \in Reqs :
        \/ Request(r)
        \/ CreateTemp(r)
        \/ ReadUpload(r)
        \/ Transcribe(r)
        \/ GenerateLocal(r)
        \/ GenerateRemote(r)
        \/ FallThrough(r)

Spec == Init /\ [][Next]_vars

\* ------------------------------------------------------------- helpers
Done(r) == pc[r] = "done"

\* request r has a file of its own making in the directory
OwnsFile(r) == \E n \in DOMAIN fs : fs[n].owner = r

\* process_audio run on its own: the response for the request's own inputs
\* (key k, parameter q, upload u), the external failure f it met and the
\* reply g of the engine, with no other request in the system
Alone(k, q, u, f, g) ==
    IF KeyMissing(k) THEN KeyErrorResponse
    ELSE IF f.at = "remote" THEN InnerExcept(Exception(f.msg))
    ELSE IF f # NoFault THEN OuterExcept(Exception(f.msg))
    ELSE LET res == Whisper(u[1]) IN
         IF ~res.ok THEN OuterExcept(Exception(res.text))
         ELSE IF IsEmptyText(res.text)
         THEN OuterExcept(HTTPException(500,
                  "Transcription failed: No text generated."))
         ELSE IF Branch(DefaultChoice(q)) = "none" THEN OkResponse(None)
         ELSE OkResponse(Payload(res.text, g[1]))

\* ---------------------------------------------------------------- claims

\* C1: no temporary file created by a request exists once the request has
\* ended, on any exit path.
C1_NoTempFileLeft ==
    \A r \in Reqs : Done(r) /\ temp_name[r] # None => ~OwnsFile(r)

\* C2: a request with model_choice "OpenAI API" or omitted, a configured key,
\* a transcription T # "" and a remote reply R ends with status 200 and the
\* payload {transcription: T, chatgpt_response: R}.
C2_RemoteSuccessPayload ==
    \A r \in Reqs :
        ( /\ Done(r)
          /\ query[r] \in {None, <<"OpenAI API">>}
          /\ env_key # None /\ env_key # <<"">>
          /\ fault[r].at = "none"
          /\ content[r] # None
          /\ Whisper(content[r][1]).ok
          /\ Whisper(content[r][1]).text # "" )
        => /\ remoteCalls[r] = 1
           /\ engineReply[r] # None
           /\ response[r] =
                [status |-> 200,
                 body |-> [transcription |-> Whisper(content[r][1]).text,
                           chatgpt_response |-> engineReply[r][1]]]

C2_Witness ==
    \E r \in Reqs :
        /\ Done(r)
        /\ query[r] = None
        /\ response[r] =
             [status |-> 200,
              body |-> [transcription |-> "hello", chatgpt_response |-> "hi there"]]

\* C3: with OPENAI_API_KEY unset or empty every request, whatever its
\* model_choice, ends with 500 at once: no temp file, no engine call.
C3_MissingKeyRejectsAll ==
    (env_key = None \/ env_key = <<"">>) =>
        /\ fs = << >>
        /\ \A r \in Reqs :
            /\ pc[r] \in {"idle", "done"}
            /\ temp_name[r] = None
            /\ whisperCalls[r] = 0 /\ localCalls[r] = 0 /\ remoteCalls[r] = 0
            /\ Done(r) => response[r].status = 500

C3_Witness ==
    /\ env_key = <<"">>
    /\ \E r \in Reqs :
        Done(r) /\ query[r] = <<"GPT4All">> /\ response[r].status = 500

\* C4: an empty or missing transcript ends the request with 500 and reaches
\* no generation engine; whatever reaches an engine is a non-empty text.
C4_EmptyNeverForwarded ==
    \A r \in Reqs :
        /\ ( /\ whisperCalls[r] = 1
             /\ \/ fault[r].at = "notext"
                \/ fault[r].at = "none" /\ Whisper(content[r][1]).text = "" )
           => /\ Done(r)
              /\ response[r].status = 500
              /\ localCalls[r] = 0 /\ remoteCalls[r] = 0
        /\ localCalls[r] + remoteCalls[r] > 0
           => transcribed_text[r] # None /\ transcribed_text[r][1] # ""

C4_Witness ==
    \E r1, r2 \in Reqs :
        /\ Done(r1) /\ content[r1] = <<"silent.wav">> /\ whisperCalls[r1] = 1
        /\ fault[r1].at = "none" /\ query[r1] = <<"GPT4All">>
        /\ Done(r2) /\ fault[r2].at = "notext"

\* C5: when the engine returns "", the error leaving the handler is 500 with
\* detail exactly "Transcription failed: No text generated."
C5_TranscriptionDetailExact ==
    \A r \in Reqs :
        ( /\ Done(r) /\ whisperCalls[r] = 1 /\ fault[r].at = "none"
          /\ Whisper(content[r][1]).text = "" )
        => response[r] =
             [status |-> 500,
              body |-> [detail |-> "Transcription failed: No text generated."]]

\* C6: a request with model_choice "GPT4All" never uses the remote service.
C6_LocalNeverRemote ==
    \A r \in Reqs : query[r] = <<"GPT4All">> => remoteCalls[r] = 0

C6_Witness ==
    \E r1, r2 \in Reqs :
        /\ Done(r1) /\ query[r1] = <<"GPT4All">> /\ response[r1].status = 200
        /\ Done(r2) /\ query[r2] = <<"GPT4All">> /\ fault[r2].at = "gpt4all"

\* C7: a failing remote completion with message M ends the request with 500
\* and detail "Error with OpenAI API: " followed by M.
C7_RemoteErrorDetail ==
    \A r \in Reqs :
        Done(r) /\ fault[r].at = "remote"
        => response[r] =
             [status |-> 500,
              body |-> [detail |-> "Error with OpenAI API: " \o fault[r].msg]]

\* C8: interleaved requests do not interfere: live requests hold distinct
\* temp names, a request's file is there with the request's own bytes until
\* the request itself removes it, and each response is the one the request
\* gets when run alone.
C8_NoInterference ==
    /\ \A r1, r2 \in Reqs :
        ( /\ r1 # r2
          /\ pc[r1] \in {"read", "transcribe", "generate"}
          /\ pc[r2] \in {"read", "transcribe", "generate"} )
        => temp_name[r1] # temp_name[r2]
    /\ \A r \in Reqs :
        /\ pc[r] \in {"read", "transcribe", "generate"}
           => /\ temp_name[r][1] \in DOMAIN fs
              /\ fs[temp_name[r][1]].owner = r
              /\ fs[temp_name[r][1]].data =
                   IF pc[r] = "read" THEN "" ELSE content[r][1]
        /\ whisperCalls[r] = 1 /\ fault[r].at = "none" /\ transcribed_text[r] # None
           => transcribed_text[r][1] = Whisper(content[r][1]).text
        /\ Done(r)
           => response[r] =
                Alone(env_key, query[r], content[r], fault[r], engineReply[r])
    /\ \A n \in DOMAIN fs : temp_name[fs[n].owner] = <<n>>

C8_Witness ==
    \E r1, r2 \in Reqs :
        /\ pc[r1] = "generate" /\ pc[r2] = "transcribe"
        /\ content[r1] = <<"hello.wav">> /\ content[r2] = <<"silent.wav">>

\* C9: no retries: each engine is called at most once per request, the first
\* external failure ends the request, and it ends it with a 500 whose detail
\* is not empty.
C9_NoRetries ==
    \A r \in Reqs :
        /\ whisperCalls[r] <= 1
        /\ localCalls[r] + remoteCalls[r] <= 1
        /\ fault[r].at # "none"
           => /\ Done(r)
              /\ response[r].status = 500
              /\ response[r].body.detail # ""
        /\ fault[r].at \in {"tempfile", "read", "write", "load"}
           => whisperCalls[r] = 0
        /\ fault[r].at \in {"tempfile", "read", "write", "load", "transcribe", "notext"}
           => localCalls[r] + remoteCalls[r] = 0

C9_Witness ==
    \E r1, r2 \in Reqs :
        /\ fault[r1].at = "gpt4all" /\ Done(r1)
        /\ fault[r2].at = "write" /\ Done(r2)

\* C10: with a model_choice that is neither "GPT4All" nor "OpenAI API" and a
\* non-empty transcript the handler returns None (status 200, empty body):
\* no engine is used, no 500, and the clean-up removed the temp file.
C10_UnknownChoiceFallsThrough ==
    \A r \in Reqs :
        ( /\ Done(r)
          /\ model_choice[r] # "GPT4All" /\ model_choice[r] # "OpenAI API"
          /\ transcribed_text[r] # None )
        => /\ response[r] = [status |-> 200, body |-> None]
           /\ localCalls[r] = 0 /\ remoteCalls[r] = 0
           /\ ~OwnsFile(r)

C10_Witness ==
    \E r \in Reqs :
        /\ Done(r) /\ query[r] = <<"llama">>
        /\ transcribed_text[r] = <<"hello">>

TypeOK ==
    /\ env_key \in EnvKeys
    /\ DOMAIN fs \subseteq Names
    /\ \A r \in Reqs :
        /\ pc[r] \in {"idle", "tempfile", "read", "transcribe", "generate",
                      "done"}
        /\ query[r] \in Queries
        /\ whisperCalls[r] \in 0..1
====
